---- MODULE Spec2Model ----
(***************************************************************************)
(* The Paddle billing callback of src/server.py (setup_paddle_callback,    *)
(* route /paddle): verification of the incoming request, dispatch on       *)
(* alert_name, and the lookup / assign / commit sequence that maintains    *)
(* the Subscription table.                                                 *)
(*                                                                         *)
(* Strings that the handler parses (subscription_plan_id, next_bill_date)  *)
(* are sequences of one-character strings; strings that are passed through *)
(* verbatim are TLA+ strings.                                              *)
(***************************************************************************)
EXTENDS Integers, Sequences, FiniteSets, TLC

VARIABLES subs, now, last, req, base, began

vars == <<subs, now, last, req, base, began>>

(***************************************************************************)
(* Bounds of the model.                                                    *)
(***************************************************************************)
MaxClock == 2

(***************************************************************************)
(* Configuration (app.config).                                             *)
(***************************************************************************)
PADDLE_MONTHLY_PRODUCT_ID == 12

(***************************************************************************)
(* int(str) of Python: surrounding whitespace is stripped, one optional    *)
(* sign, then decimal digits (single underscores between digits allowed).  *)
(* Anything else raises ValueError: ok = FALSE.                            *)
(***************************************************************************)
DigitChars == <<"0", "1", "2", "3", "4", "5", "6", "7", "8", "9">>

IsDigit(c) == \E i \in 1..10 : DigitChars[i] = c

DigitVal(c) == (CHOOSE i \in 1..10 : DigitChars[i] = c) - 1

RECURSIVE DigitsValue(_, _)
DigitsValue(s, acc) ==
    IF s = <<>> THEN acc
    ELSE IF Head(s) = "_" THEN DigitsValue(Tail(s), acc)
    ELSE DigitsValue(Tail(s), 10 * acc + DigitVal(Head(s)))

Strip(s) ==
    LET keep == {i \in 1..Len(s) : s[i] # " "}
    IN  IF keep = {} THEN <<>>
        ELSE LET lo == CHOOSE i \in keep : \A j \in keep : i <= j
                 hi == CHOOSE i \in keep : \A j \in keep : j <= i
             IN  SubSeq(s, lo, hi)

IntBodyOk(body) ==
    /\ body # <<>>
    /\ \A i \in 1..Len(body) : IsDigit(body[i]) \/ body[i] = "_"
    /\ body[1] # "_" /\ body[Len(body)] # "_"
    /\ \A i \in 1..(Len(body) - 1) : ~(body[i] = "_" /\ body[i + 1] = "_")

IntOfBody(body, negative) ==
    IF ~IntBodyOk(body) THEN [ok |-> FALSE, val |-> 0]
    ELSE [ok |-> TRUE,
          val |-> IF negative THEN 0 - DigitsValue(body, 0) ELSE DigitsValue(body, 0)]

IntOfStripped(t) ==
    IF t # <<>> /\ Head(t) \in {"+", "-"}
    THEN IntOfBody(Tail(t), Head(t) = "-")
    ELSE IntOfBody(t, FALSE)

py_int(s) == IntOfStripped(Strip(s))

(***************************************************************************)
(* arrow.get(str, "YYYY-MM-DD").date(): four digits, a dash, two digits,   *)
(* a dash, two digits, which must name a day of the calendar.  Anything    *)
(* else raises: ok = FALSE.  The date is <<year, month, day>>.             *)
(***************************************************************************)
NoDate == <<0, 0, 0>>

IsLeap(y) == (y % 4 = 0 /\ y % 100 # 0) \/ y % 400 = 0

DaysInMonth(y, m) ==
    IF m = 2 THEN (IF IsLeap(y) THEN 29 ELSE 28)
    ELSE IF m \in {4, 6, 9, 11} THEN 30 ELSE 31

DateShaped(s) ==
    /\ Len(s) = 10
    /\ s[5] = "-" /\ s[8] = "-"
    /\ \A i \in {1, 2, 3, 4, 6, 7, 9, 10} : IsDigit(s[i])

DateOf(y, m, d) ==
    IF y < 1 \/ m < 1 \/ m > 12 \/ d < 1 \/ d > DaysInMonth(y, m)
    THEN [ok |-> FALSE, date |-> NoDate]
    ELSE [ok |-> TRUE, date |-> <<y, m, d>>]

arrow_get_date(s) ==
    IF ~DateShaped(s) THEN [ok |-> FALSE, date |-> NoDate]
    ELSE DateOf(DigitsValue(SubSeq(s, 1, 4), 0),
                DigitsValue(SubSeq(s, 6, 7), 0),
                DigitsValue(SubSeq(s, 9, 10), 0))

(***************************************************************************)
(* The user directory (User.get_by(email=...)): the id of the user with    *)
(* that email, 0 for None.  The callback never changes it.                 *)
(***************************************************************************)
Emails == {"a@sl.co", "b@sl.co", "nobody@sl.co"}

User_get_by(email) ==
    IF email = "a@sl.co" THEN 1
    ELSE IF email = "b@sl.co" THEN 2
    ELSE 0

UserIds == {1, 2}

(***************************************************************************)
(* The Subscription table.  subs is the sequence of its rows, the index    *)
(* being the primary key.  A unit of work (the SQLAlchemy session of one   *)
(* request) is an insert of a new row or an update of the attributes that  *)
(* the handler assigned on a loaded row: <<>> is "not assigned", <<v>> is  *)
(* "assigned v".                                                           *)
(***************************************************************************)
Unset == <<>>

Assigned(v) == <<v>>

NoChanges ==
    [cancel_url |-> Unset, update_url |-> Unset, subscription_id |-> Unset,
     event_time |-> Unset, next_bill_date |-> Unset, plan |-> Unset,
     cancelled |-> Unset]

NoSession == [op |-> "none", id |-> 0, user_id |-> 0, set |-> NoChanges]

Over(old, a) == IF a = Unset THEN old ELSE a[1]

ApplyChanges(row, set) ==
    [user_id |-> row.user_id,
     cancel_url |-> Over(row.cancel_url, set.cancel_url),
     update_url |-> Over(row.update_url, set.update_url),
     subscription_id |-> Over(row.subscription_id, set.subscription_id),
     event_time |-> Over(row.event_time, set.event_time),
     next_bill_date |-> Over(row.next_bill_date, set.next_bill_date),
     plan |-> Over(row.plan, set.plan),
     cancelled |-> Over(row.cancelled, set.cancelled)]

\* Subscription.create(...): the row as constructed; cancelled takes the
\* column default.
NewRow(user_id, set) ==
    [user_id |-> user_id,
     cancel_url |-> set.cancel_url[1],
     update_url |-> set.update_url[1],
     subscription_id |-> set.subscription_id[1],
     event_time |-> set.event_time[1],
     next_bill_date |-> set.next_bill_date[1],
     plan |-> set.plan[1],
     cancelled |-> Over(FALSE, set.cancelled)]

\* Subscription.get_by(user_id=...): primary key of the row, 0 for None.
get_by_user_id(table, uid) ==
    LET hits == {i \in 1..Len(table) : table[i].user_id = uid}
    IN  IF hits = {} THEN 0 ELSE CHOOSE i \in hits : \A j \in hits : i <= j

\* Subscription.get_by(subscription_id=...): primary key of the row, 0 for None.
get_by_subscription_id(table, sid) ==
    LET hits == {i \in 1..Len(table) : table[i].subscription_id = sid}
    IN  IF hits = {} THEN 0 ELSE CHOOSE i \in hits : \A j \in hits : i <= j

\* Variant of UniqueOk: the table enforces nothing.
UniqueOk_unconstrained(table, i, row) == TRUE

\* Variant of UniqueOk: only user_id is unique.
UniqueOk_user_id_only(table, i, row) ==
    \A j \in 1..Len(table) : j # i => table[j].user_id # row.user_id

\* The uniqueness the table enforces when a unit of work is flushed:
\* one row per user_id, one row per subscription_id.
UniqueOk(table, i, row) ==
    \A j \in 1..Len(table) :
        j # i => /\ table[j].user_id # row.user_id
                 /\ table[j].subscription_id # row.subscription_id

\* The table with the row at primary key i (0: a new row) set to row, when
\* the constraints allow it.
Flush(table, i, row) ==
    IF ~UniqueOk(table, i, row) THEN [ok |-> FALSE, table |-> table]
    ELSE IF i = 0 THEN [ok |-> TRUE, table |-> Append(table, row)]
    ELSE [ok |-> TRUE, table |-> [table EXCEPT ![i] = row]]

\* db.session.commit(): the unit of work is applied as a whole or, when it
\* breaks a constraint, not at all (ok = FALSE: the commit raises).
db_session_commit(table, session) ==
    IF session.op = "insert"
        THEN Flush(table, 0, NewRow(session.user_id, session.set))
    ELSE IF session.op = "update"
        THEN Flush(table, session.id, ApplyChanges(table[session.id], session.set))
    ELSE [ok |-> TRUE, table |-> table]

\* Variant of db_session_remove: what the session had assigned is written
\* when the session is removed.
db_session_remove_flushes(table, session) ==
    db_session_commit(table, session).table

\* The removal of the request's session when the request ends without a
\* commit: what the session had assigned is never written.
db_session_remove(table, session) == table

\* paddle_utils.verify_incoming_request(form): whether the signature that
\* accompanies the fields is the provider's signature of these fields.
verify_incoming_request(form) == form.p_signature = "signed"

(***************************************************************************)
(* Responses of the route.                                                 *)
(***************************************************************************)
Pending == [status |-> 0, body |-> ""]

OK200 == [status |-> 200, body |-> "OK"]

KO400 == [status |-> 400, body |-> "KO"]

NoSuch400 == [status |-> 400, body |-> "No such subscription"]

\* An exception that leaves the view is answered by error_handler; the
\* request's session is dropped with whatever it had assigned.
Err500 == [status |-> 500, body |-> "error/500.html"]

Raised(queries, found) ==
    [resp |-> Err500, session |-> NoSession, queries |-> queries, found |-> found]

\* The session of a unit of work of which only the attributes in done had
\* been assigned.
PartialOf(session, done) ==
    [session EXCEPT
       !.set = [f \in DOMAIN NoChanges |->
                  IF f \in done THEN session.set[f] ELSE Unset]]

\* An exception raised between two assignments on a row: the session holds
\* the assignments made so far.
RaisedMidway(session, queries, found) ==
    [resp |-> Err500, session |-> session, queries |-> queries, found |-> found]

Returned(resp, queries, found) ==
    [resp |-> resp, session |-> NoSession, queries |-> queries, found |-> found]

ToCommit(session, queries, found) ==
    [resp |-> Pending, session |-> session, queries |-> queries, found |-> found]

(***************************************************************************)
(* The view function, up to its db.session.commit().  form is              *)
(* request.form, table the Subscription table the queries read, t the      *)
(* value arrow.now() returns.  The result is the response when the view    *)
(* ends without a commit, or the unit of work to commit; queries counts    *)
(* the database queries issued and found is the row the lookup returned.   *)
(***************************************************************************)

\* Variant of plan_of: the identifier is compared as text with the text of
\* the monthly product id, no conversion.
plan_of_by_text(plan_id) ==
    [ok |-> TRUE,
     plan |-> IF plan_id = <<"1", "2">> THEN "monthly" ELSE "yearly"]

PlanOfInt(n) ==
    [ok |-> n.ok,
     plan |-> IF n.ok /\ n.val = PADDLE_MONTHLY_PRODUCT_ID
              THEN "monthly" ELSE "yearly"]

\* Lines 467-473 and 555-561: int(subscription_plan_id) compared with the
\* configured monthly product id.
plan_of(plan_id) == PlanOfInt(py_int(plan_id))

\* Lines 480-488 and 492-499: the attributes a subscription_created request
\* gives to the row.
created_values(form, t, date, plan) ==
    [NoChanges EXCEPT
       !.cancel_url = Assigned(form.cancel_url),
       !.update_url = Assigned(form.update_url),
       !.subscription_id = Assigned(form.subscription_id),
       !.event_time = Assigned(t),
       !.next_bill_date = Assigned(date),
       !.plan = Assigned(plan)]

\* Lines 479-489: Subscription.create(...).
created_insert(user, values) ==
    [op |-> "insert", id |-> 0, user_id |-> user, set |-> values]

\* Variant of created_update: the existing row keeps the subscription_id it
\* has.
created_update_keeps_id(user, sub, values) ==
    [op |-> "update", id |-> sub, user_id |-> user,
     set |-> [values EXCEPT !.subscription_id = Unset,
                            !.cancelled = Assigned(FALSE)]]

\* Lines 491-503: the assignments on the existing row.
created_update(user, sub, values) ==
    [op |-> "update", id |-> sub, user_id |-> user,
     set |-> [values EXCEPT !.cancelled = Assigned(FALSE)]]

\* Lines 464-506 in the order they run: int() raises before the user is
\* used, user.id raises when no user has the email, the date is parsed
\* while the arguments of create are evaluated or, on an existing row,
\* after cancel_url, update_url, subscription_id and event_time have been
\* assigned.  ins and upd are the units of work of the two branches of
\* "if not sub".
created_steps(user, p, sub, d, ins, upd) ==
    IF ~p.ok THEN Raised(1, 0)
    ELSE IF user = 0 THEN Raised(1, 0)
    ELSE IF ~d.ok /\ sub = 0 THEN Raised(2, sub)
    ELSE IF ~d.ok
        THEN RaisedMidway(PartialOf(upd, {"cancel_url", "update_url",
                                          "subscription_id", "event_time"}),
                          2, sub)
    ELSE IF sub = 0 THEN ToCommit(ins, 2, sub)
    ELSE ToCommit(upd, 2, sub)

\* The values of the request as the branch computes them.
CreatedValuesOf(form, t) ==
    created_values(form, t, arrow_get_date(form.next_bill_date).date,
                   plan_of(form.subscription_plan_id).plan)

\* Variant of subscription_created: the lookup result is ignored and a row
\* is created every time.
subscription_created_always_insert(form, table, t) ==
    created_steps(User_get_by(form.email),
                  plan_of(form.subscription_plan_id),
                  0,
                  arrow_get_date(form.next_bill_date),
                  created_insert(User_get_by(form.email), CreatedValuesOf(form, t)),
                  created_insert(User_get_by(form.email), CreatedValuesOf(form, t)))

\* Variant of subscription_created: an existing row keeps its cancelled flag.
subscription_created_keeps_cancelled(form, table, t) ==
    created_steps(User_get_by(form.email),
                  plan_of(form.subscription_plan_id),
                  get_by_user_id(table, User_get_by(form.email)),
                  arrow_get_date(form.next_bill_date),
                  created_insert(User_get_by(form.email), CreatedValuesOf(form, t)),
                  [op |-> "update",
                   id |-> get_by_user_id(table, User_get_by(form.email)),
                   user_id |-> User_get_by(form.email),
                   set |-> CreatedValuesOf(form, t)])

\* Variant of subscription_created: on an existing row subscription_id is
\* assigned from the update_url field.
subscription_created_wrong_id(form, table, t) ==
    created_steps(User_get_by(form.email),
                  plan_of(form.subscription_plan_id),
                  get_by_user_id(table, User_get_by(form.email)),
                  arrow_get_date(form.next_bill_date),
                  created_insert(User_get_by(form.email), CreatedValuesOf(form, t)),
                  created_update(User_get_by(form.email),
                                 get_by_user_id(table, User_get_by(form.email)),
                                 [CreatedValuesOf(form, t) EXCEPT
                                    !.subscription_id = Assigned(form.update_url)]))

\* Lines 461-507, up to the commit.
subscription_created(form, table, t) ==
    created_steps(User_get_by(form.email),
                  plan_of(form.subscription_plan_id),
                  get_by_user_id(table, User_get_by(form.email)),
                  arrow_get_date(form.next_bill_date),
                  created_insert(User_get_by(form.email), CreatedValuesOf(form, t)),
                  created_update(User_get_by(form.email),
                                 get_by_user_id(table, User_get_by(form.email)),
                                 CreatedValuesOf(form, t)))

\* Variant of payment_update: the payment also marks the row not
\* cancelled, as the subscription_created and subscription_updated
\* branches do.
payment_update_uncancels(table, sub, t, date) ==
    [op |-> "update", id |-> sub, user_id |-> table[sub].user_id,
     set |-> [NoChanges EXCEPT
                !.event_time = Assigned(t),
                !.next_bill_date = Assigned(date),
                !.cancelled = Assigned(FALSE)]]

\* Lines 516-520: the assignments of a payment on the row it found.
payment_update(table, sub, t, date) ==
    [op |-> "update", id |-> sub, user_id |-> table[sub].user_id,
     set |-> [NoChanges EXCEPT
                !.event_time = Assigned(t),
                !.next_bill_date = Assigned(date)]]

\* Variant of payment_steps: the date is parsed before the lookup.
payment_steps_date_first(table, sub, t, d, missing) ==
    IF ~d.ok THEN Raised(0, 0)
    ELSE IF sub = 0 THEN missing
    ELSE ToCommit(payment_update(table, sub, t, d.date), 1, sub)

\* Lines 513-522 in the order they run; missing is the result when no row
\* has the subscription_id.
payment_steps(table, sub, t, d, missing) ==
    IF sub = 0 THEN missing
    ELSE IF ~d.ok
        THEN RaisedMidway(PartialOf(payment_update(table, sub, t, d.date),
                                    {"event_time"}),
                          1, sub)
    ELSE ToCommit(payment_update(table, sub, t, d.date), 1, sub)

\* Variant of subscription_payment_succeeded: an unknown subscription is
\* answered like an unknown subscription in the other branches.
subscription_payment_succeeded_strict(form, table, t) ==
    payment_steps(table, get_by_subscription_id(table, form.subscription_id), t,
                  arrow_get_date(form.next_bill_date),
                  Returned([status |-> 400, body |-> "No such subscription"], 1, 0))

\* Lines 509-522, up to the commit: without a row the branch does nothing
\* and the view ends with the final return "OK".
subscription_payment_succeeded(form, table, t) ==
    payment_steps(table, get_by_subscription_id(table, form.subscription_id), t,
                  arrow_get_date(form.next_bill_date),
                  Returned(OK200, 1, 0))

\* Variant of cancelled_steps: a row that is already cancelled is treated
\* like no row.
cancelled_steps_once(table, sub, t, missing) ==
    IF sub = 0 THEN missing
    ELSE IF table[sub].cancelled THEN missing
    ELSE ToCommit([op |-> "update", id |-> sub, user_id |-> table[sub].user_id,
                   set |-> [NoChanges EXCEPT
                              !.event_time = Assigned(t),
                              !.cancelled = Assigned(TRUE)]],
                  1, sub)

\* Lines 527-542 in the order they run; missing is the result when no row
\* has the subscription_id.
cancelled_steps(table, sub, t, missing) ==
    IF sub = 0 THEN missing
    ELSE ToCommit([op |-> "update", id |-> sub, user_id |-> table[sub].user_id,
                   set |-> [NoChanges EXCEPT
                              !.event_time = Assigned(t),
                              !.cancelled = Assigned(TRUE)]],
                  1, sub)

\* Variant of subscription_cancelled: the cancellation's effective date,
\* which the branch only logs, is stored as next_bill_date.
subscription_cancelled_stores_effective_date(form, table, t) ==
    IF get_by_subscription_id(table, form.subscription_id) = 0
    THEN Returned(NoSuch400, 1, 0)
    ELSE ToCommit([op |-> "update",
                   id |-> get_by_subscription_id(table, form.subscription_id),
                   user_id |-> 0,
                   set |-> [NoChanges EXCEPT
                              !.event_time = Assigned(t),
                              !.next_bill_date =
                                  Assigned(arrow_get_date(
                                      form.cancellation_effective_date).date),
                              !.cancelled = Assigned(TRUE)]],
                  1, get_by_subscription_id(table, form.subscription_id))

\* Variant of subscription_cancelled: an unknown subscription falls through
\* to the final return "OK".
subscription_cancelled_lenient(form, table, t) ==
    cancelled_steps(table, get_by_subscription_id(table, form.subscription_id), t,
                    Returned(OK200, 1, 0))

\* Lines 524-542, up to the commit.
subscription_cancelled(form, table, t) ==
    cancelled_steps(table, get_by_subscription_id(table, form.subscription_id), t,
                    Returned(NoSuch400, 1, 0))

\* Lines 563-569: the terms a subscription_updated request assigns.
updated_values(form, t, date, plan) ==
    [NoChanges EXCEPT
       !.cancel_url = Assigned(form.cancel_url),
       !.update_url = Assigned(form.update_url),
       !.event_time = Assigned(t),
       !.next_bill_date = Assigned(date),
       !.plan = Assigned(plan)]

\* Lines 546-576 in the order they run: the plan id and the date are parsed
\* only when the row exists.  values is what is assigned on the row.
updated_steps(table, sub, p, d, values) ==
    IF sub = 0 THEN Returned(NoSuch400, 1, sub)
    ELSE IF ~p.ok THEN Raised(1, sub)
    ELSE IF ~d.ok
        THEN RaisedMidway(PartialOf([op |-> "update", id |-> sub,
                                     user_id |-> table[sub].user_id,
                                     set |-> values],
                                    {"cancel_url", "update_url", "event_time"}),
                          1, sub)
    ELSE ToCommit([op |-> "update", id |-> sub, user_id |-> table[sub].user_id,
                   set |-> values],
                  1, sub)

UpdatedValuesOf(form, t) ==
    updated_values(form, t, arrow_get_date(form.next_bill_date).date,
                   plan_of(form.subscription_plan_id).plan)

\* Variant of subscription_updated: the row keeps its cancelled flag.
subscription_updated_keeps_cancelled(form, table, t) ==
    updated_steps(table, get_by_subscription_id(table, form.subscription_id),
                  plan_of(form.subscription_plan_id),
                  arrow_get_date(form.next_bill_date),
                  UpdatedValuesOf(form, t))

\* Lines 543-576, up to the commit; line 572 sets cancelled = False.
subscription_updated(form, table, t) ==
    updated_steps(table, get_by_subscription_id(table, form.subscription_id),
                  plan_of(form.subscription_plan_id),
                  arrow_get_date(form.next_bill_date),
                  [UpdatedValuesOf(form, t) EXCEPT !.cancelled = Assigned(FALSE)])

\* Variant of dispatch: the last branch is taken for every other name.
dispatch_last_branch_default(form, table, t) ==
    IF form.alert_name = "subscription_created"
        THEN subscription_created(form, table, t)
    ELSE IF form.alert_name = "subscription_payment_succeeded"
        THEN subscription_payment_succeeded(form, table, t)
    ELSE IF form.alert_name = "subscription_cancelled"
        THEN subscription_cancelled(form, table, t)
    ELSE subscription_updated(form, table, t)

\* Lines 461-577: the dispatch on alert_name; a name that matches no branch
\* falls through to the final return "OK".
dispatch(form, table, t) ==
    IF form.alert_name = "subscription_created"
        THEN subscription_created(form, table, t)
    ELSE IF form.alert_name = "subscription_payment_succeeded"
        THEN subscription_payment_succeeded(form, table, t)
    ELSE IF form.alert_name = "subscription_cancelled"
        THEN subscription_cancelled(form, table, t)
    ELSE IF form.alert_name = "subscription_updated"
        THEN subscription_updated(form, table, t)
    ELSE Returned(OK200, 0, 0)

\* Variant of paddle_view: the request is dispatched without the check.
paddle_view_unverified(form, table, t) == dispatch(form, table, t)

\* Lines 451-459, then the dispatch.
paddle_view(form, table, t) ==
    IF ~verify_incoming_request(form) THEN Returned(KO400, 0, 0)
    ELSE dispatch(form, table, t)

CommitResponse(table, c) ==
    IF c.ok THEN [resp |-> OK200, table |-> c.table]
    ELSE [resp |-> Err500, table |-> table]

\* The db.session.commit() of the branch and the final return "OK"; a
\* commit that raises is answered by error_handler.
paddle_commit(table, session) ==
    CommitResponse(table, db_session_commit(table, session))

Finished(v, c) ==
    [resp |-> c.resp, table |-> c.table, queries |-> v.queries, found |-> v.found]

AfterView(table, v) ==
    IF v.resp # Pending
        THEN Finished(v, [resp |-> v.resp,
                          table |-> db_session_remove(table, v.session)])
    ELSE Finished(v, paddle_commit(table, v.session))

\* One request served from its first line to its response with no other
\* request in between.
paddle(form, table, t) == AfterView(table, paddle_view(form, table, t))

(***************************************************************************)
(* The requests the provider (or anybody else) may post.                   *)
(***************************************************************************)
MkForm(kind, email, plan_id, sid, urls, date, sig) ==
    [alert_name |-> kind, email |-> email, subscription_plan_id |-> plan_id,
     subscription_id |-> sid, cancel_url |-> urls[1], update_url |-> urls[2],
     next_bill_date |-> date,
     cancellation_effective_date |->
         IF kind = "subscription_cancelled" THEN date ELSE <<>>,
     p_signature |-> sig]

SubIds == {"s1", "s2"}

UrlPairs == {<<"cancel/1", "update/1">>, <<"cancel/2", "update/2">>}

P12 == <<"1", "2">>

P7 == <<"7">>

P012 == <<"0", "1", "2">>

PX == <<"x">>

D1 == <<"2", "0", "2", "0", "-", "0", "1", "-", "1", "5">>

D2 == <<"2", "0", "2", "0", "-", "0", "2", "-", "1", "5">>

DBad == <<"2", "0", "2", "0", "-", "0", "2", "-", "3", "0">>

U1 == <<"cancel/1", "update/1">>

\* User a subscribes with every combination of plan, id, links and date;
\* user b with one set of terms.
CreatedForms ==
    {MkForm("subscription_created", "a@sl.co", p, s, u, d, "signed") :
        p \in {P12, P7}, s \in SubIds, u \in UrlPairs, d \in {D1, D2}}
    \cup {MkForm("subscription_created", "b@sl.co", P7, "s2", U1, D1, "signed")}

\* Later events name subscription s1; s2 is the id of a second subscription.
UpdatedForms ==
    {MkForm("subscription_updated", "a@sl.co", p, "s1", u, d, "signed") :
        p \in {P12, P7}, u \in UrlPairs, d \in {D1, D2}}

PaymentForms ==
    {MkForm("subscription_payment_succeeded", "a@sl.co", P7, "s1", U1, d, "signed") :
        d \in {D1, D2}}

CancelledForms ==
    {MkForm("subscription_cancelled", "a@sl.co", P7, "s1", U1, D1, "signed")}

\* Requests with one field the handler cannot use, and a kind it does not know.
OddForms ==
    {MkForm("subscription_created", "nobody@sl.co", P7, "s1", U1, D1, "signed"),
     MkForm("subscription_created", "a@sl.co", PX, "s1", U1, D1, "signed"),
     MkForm("subscription_created", "a@sl.co", P012, "s1", U1, D1, "signed"),
     MkForm("subscription_created", "a@sl.co", P7, "s1", U1, DBad, "signed"),
     MkForm("subscription_updated", "a@sl.co", PX, "s1", U1, D1, "signed"),
     MkForm("subscription_updated", "a@sl.co", P012, "s1", U1, D1, "signed"),
     MkForm("subscription_updated", "a@sl.co", P7, "s1", U1, DBad, "signed"),
     MkForm("subscription_payment_succeeded", "a@sl.co", P7, "s1", U1, DBad, "signed"),
     MkForm("subscription_payment_failed", "a@sl.co", P7, "s1", U1, D1, "signed")}

\* Requests whose signature does not match their fields, one of every kind.
ForgedForms ==
    {MkForm(k, "a@sl.co", P12, "s1", U1, D2, "forged") :
        k \in {"subscription_created", "subscription_payment_succeeded",
               "subscription_cancelled", "subscription_updated",
               "subscription_payment_failed"}}

Forms ==
    CreatedForms \cup UpdatedForms \cup PaymentForms \cup CancelledForms
        \cup OddForms \cup ForgedForms

NoForm == MkForm("", "", <<>>, "", <<"", "">>, <<>>, "")

(***************************************************************************)
(* State.  subs: the Subscription table.  now: the clock.  last: the most   *)
(* recent request served alone and how it ended (the row its lookup found, *)
(* that row's cancelled and subscription_id before the request, whether    *)
(* the request repeats the one before it, whether the one before it was a  *)
(* payment for the same, then unknown, subscription).  req, base, began:   *)
(* the requests in flight when two workers serve the route.                *)
(***************************************************************************)
NoLast ==
    [form |-> NoForm, resp |-> Pending, queries |-> 0, found |-> 0,
     was_cancelled |-> FALSE, old_sid |-> "", replay |-> FALSE,
     after_gap |-> FALSE]

Workers == {1, 2}

Idle ==
    [pc |-> "idle", form |-> NoForm, t |-> 0, resp |-> Pending,
     session |-> NoSession, queries |-> 0, found |-> 0]

Init ==
    /\ subs = <<>>
    /\ now = 1
    /\ last = NoLast
    /\ req = [w \in Workers |-> Idle]
    /\ base = <<>>
    /\ began = 0

\* Time passes.
Tick ==
    /\ now < MaxClock
    /\ now' = now + 1
    /\ UNCHANGED <<subs, last, req, base, began>>

\* What is kept of a request served alone.
Observed(form, r) ==
    [form |-> form, resp |-> r.resp, queries |-> r.queries, found |-> r.found,
     was_cancelled |-> r.found # 0 /\ subs[r.found].cancelled,
     old_sid |-> IF r.found = 0 THEN "" ELSE subs[r.found].subscription_id,
     replay |-> last.form = form,
     after_gap |->
         /\ last.form.alert_name = "subscription_payment_succeeded"
         /\ last.form.subscription_id = form.subscription_id
         /\ last.resp = OK200
         /\ last.queries = 1
         /\ last.found = 0]

\* The route serves one request from start to end.
Deliver(form) ==
    /\ subs' = paddle(form, subs, now).table
    /\ last' = Observed(form, paddle(form, subs, now))
    /\ UNCHANGED <<now, req, base, began>>

Next ==
    \/ Tick
    \/ \E form \in Forms : Deliver(form)

Spec == Init /\ [][Next]_vars

(***************************************************************************)
(* Two workers serve the route.  A request is served in two steps, the     *)
(* view up to its commit (the queries read the table as it is then, the    *)
(* clock is read then) and the commit; the other worker may take steps in  *)
(* between: the view takes no lock and does not select for update.         *)
(* base is the table when a request began with no other request in flight, *)
(* began the number of requests begun since; at most MaxBegan requests     *)
(* overlap before the route is quiet again.                                *)
(***************************************************************************)
RaceForms ==
    {MkForm("subscription_created", "a@sl.co", P12, "s1", U1, D1, "signed"),
     MkForm("subscription_created", "a@sl.co", P7, "s2", <<"cancel/2", "update/2">>, D2, "signed"),
     MkForm("subscription_payment_succeeded", "a@sl.co", P7, "s1", U1, D2, "signed"),
     MkForm("subscription_cancelled", "a@sl.co", P7, "s1", U1, D1, "signed"),
     MkForm("subscription_updated", "a@sl.co", P7, "s1", <<"cancel/2", "update/2">>, D1, "signed")}

MaxBegan == 2

InFlight(w) == req[w].pc = "commit"

Started(form, t, v) ==
    [pc |-> IF v.resp = Pending THEN "commit" ELSE "done",
     form |-> form, t |-> t, resp |-> v.resp, session |-> v.session,
     queries |-> v.queries, found |-> v.found]

Alone(w) == \A o \in Workers \ {w} : ~InFlight(o)

Begin(w, form) ==
    /\ ~InFlight(w)
    /\ Alone(w) \/ began < MaxBegan
    /\ req' = [o \in Workers |->
                 IF o = w THEN Started(form, now, paddle_view(form, subs, now))
                 ELSE IF Alone(w) THEN Idle ELSE req[o]]
    /\ base' = IF Alone(w) THEN subs ELSE base
    /\ began' = IF Alone(w) THEN 1 ELSE began + 1
    /\ UNCHANGED <<subs, now, last>>

Commit(w) ==
    /\ InFlight(w)
    /\ subs' = paddle_commit(subs, req[w].session).table
    /\ req' = [req EXCEPT ![w].pc = "done",
                          ![w].resp = paddle_commit(subs, req[w].session).resp]
    /\ UNCHANGED <<now, last, base, began>>

NextRace ==
    \/ Tick
    \/ \E w \in Workers, form \in RaceForms : Begin(w, form)
    \/ \E w \in Workers : Commit(w)

SpecRace == Init /\ [][NextRace]_vars

(***************************************************************************)
(* Vocabulary of the properties.                                           *)
(***************************************************************************)

\* A step that serves a request (every step of Spec but Tick).
Served == now' = now

Signed(form) == verify_incoming_request(form)

RowsOf(table, uid) == {i \in 1..Len(table) : table[i].user_id = uid}

RowsWith(table, sid) == {i \in 1..Len(table) : table[i].subscription_id = sid}

\* What the requests of the model stand for, written out by hand.
ExpectedPlan(plan_id) ==
    CASE plan_id = P12 -> "monthly"
      [] plan_id = P012 -> "monthly"
      [] plan_id = P7 -> "yearly"
      [] OTHER -> "not a number"

ExpectedDate(date) ==
    CASE date = D1 -> <<2020, 1, 15>>
      [] date = D2 -> <<2020, 2, 15>>
      [] OTHER -> <<0, 0, 0>>

\* A request whose plan id and date the handler can read.
Readable(form) ==
    /\ ExpectedPlan(form.subscription_plan_id) # "not a number"
    /\ ExpectedDate(form.next_bill_date) # <<0, 0, 0>>

\* The row carries the terms of the request.
CarriesTerms(row, form) ==
    /\ row.plan = ExpectedPlan(form.subscription_plan_id)
    /\ row.cancel_url = form.cancel_url
    /\ row.update_url = form.update_url
    /\ row.next_bill_date = ExpectedDate(form.next_bill_date)

(***************************************************************************)
(* C1  Signature gate: a request of any kind, in any state of the table,   *)
(* that fails verify_incoming_request is answered "KO", 400, issues no     *)
(* query and leaves the table exactly as it was.                           *)
(***************************************************************************)
C1_SignatureGate ==
    [][(Served /\ ~Signed(last'.form)) =>
          /\ last'.resp = KO400
          /\ last'.resp.status # 200
          /\ last'.queries = 0
          /\ subs' = subs]_vars

\* A forged subscription_cancelled for a subscription that exists has been
\* turned away.
C1_Witness ==
    /\ last.form \in ForgedForms
    /\ last.form.alert_name = "subscription_cancelled"
    /\ last.resp = KO400
    /\ \E i \in RowsWith(subs, last.form.subscription_id) : ~subs[i].cancelled

\* The users whose row a request is about, given the table it began on.
UsersOf(form, table) ==
    IF form.alert_name = "subscription_created"
    THEN {User_get_by(form.email)} \ {0}
    ELSE {table[i].user_id : i \in RowsWith(table, form.subscription_id)}

\* The table after request x and then request y, each served alone with the
\* clock reading it had.
SerialTable(table, x, y) ==
    paddle(y.form, paddle(x.form, table, x.t).table, y.t).table

(***************************************************************************)
(* C2  No lost update: when two requests about the same user's row have    *)
(* overlapped (each began before the other committed) and both have been   *)
(* accepted, the table is the one that serving the two requests one after  *)
(* the other, in one of the two orders, produces.                          *)
(***************************************************************************)
C2_NoLostUpdate ==
    (/\ began = 2
     /\ \A w \in Workers : req[w].pc = "done" /\ req[w].resp = OK200
     /\ UsersOf(req[1].form, base) \cap UsersOf(req[2].form, base) # {})
        => \/ subs = SerialTable(base, req[1], req[2])
           \/ subs = SerialTable(base, req[2], req[1])

C4_CreateIdempotent ==
    [][(/\ Served
        /\ last'.replay
        /\ last'.form.alert_name = "subscription_created"
        /\ Signed(last'.form)
        /\ last.resp = OK200) =>
          LET u == User_get_by(last'.form.email)
          IN  /\ last'.resp = OK200
              /\ Cardinality(RowsOf(subs', u)) = 1
              /\ RowsOf(subs', u) = RowsOf(subs, u)
              /\ \A i \in RowsOf(subs', u) :
                    /\ subs'[i].plan = subs[i].plan
                    /\ subs'[i].cancel_url = subs[i].cancel_url
                    /\ subs'[i].update_url = subs[i].update_url
                    /\ subs'[i].next_bill_date = subs[i].next_bill_date
                    /\ subs'[i].cancelled = subs[i].cancelled
                    /\ subs'[i].cancelled = FALSE
                    /\ CarriesTerms(subs'[i], last'.form)]_vars

\* The same subscription_created request has been accepted twice in a row.
C4_Witness ==
    /\ last.replay
    /\ last.form \in CreatedForms
    /\ last.resp = OK200
    /\ Cardinality(RowsOf(subs, User_get_by(last.form.email))) = 1

(***************************************************************************)
(* C5  Out-of-order tolerance: a subscription_payment_succeeded request    *)
(* whose subscription_id no row carries is answered with success, creates  *)
(* no row and changes no row; a readable subscription_created request of   *)
(* a known user for that subscription_id delivered next is accepted and    *)
(* leaves a row with that subscription_id and the request's terms.         *)
(***************************************************************************)
C5_OutOfOrder ==
    [][Served =>
          /\ (/\ last'.form.alert_name = "subscription_payment_succeeded"
              /\ Signed(last'.form)
              /\ RowsWith(subs, last'.form.subscription_id) = {}) =>
                 (last'.resp = OK200 /\ subs' = subs)
          /\ (/\ last'.after_gap
              /\ last'.form.alert_name = "subscription_created"
              /\ Signed(last'.form)
              /\ Readable(last'.form)
              /\ User_get_by(last'.form.email) # 0) =>
                 /\ last'.resp = OK200
                 /\ \E i \in RowsOf(subs', User_get_by(last'.form.email)) :
                       /\ subs'[i].subscription_id = last'.form.subscription_id
                       /\ CarriesTerms(subs'[i], last'.form)
                       /\ ~subs'[i].cancelled]_vars

\* A subscription_created request has been accepted right after the payment
\* for its subscription was let through, with another user's row present.
C5_Witness ==
    /\ last.after_gap
    /\ last.form \in CreatedForms
    /\ last.resp = OK200
    /\ last.found = 0
    /\ Len(subs) = 2

(***************************************************************************)
(* C6  Divergence rejection: a subscription_cancelled or                   *)
(* subscription_updated request whose subscription_id no row carries is    *)
(* answered "No such subscription", 400 (not the success a payment for an  *)
(* unknown subscription gets) and the table is left exactly as it was.     *)
(***************************************************************************)
C6_DivergenceRejected ==
    [][(/\ Served
        /\ last'.form.alert_name \in {"subscription_cancelled", "subscription_updated"}
        /\ Signed(last'.form)
        /\ RowsWith(subs, last'.form.subscription_id) = {}) =>
          /\ last'.resp = NoSuch400
          /\ last'.resp.status # 200
          /\ subs' = subs]_vars

\* A subscription_cancelled for an id that a row used to carry has been
\* rejected.
C6_Witness ==
    /\ last.form.alert_name = "subscription_cancelled"
    /\ Signed(last.form)
    /\ last.resp = NoSuch400
    /\ RowsWith(subs, last.form.subscription_id) = {}
    /\ Len(subs) > 0

(***************************************************************************)
(* C7  Un-cancel on update: a readable subscription_updated request for    *)
(* the subscription_id of a row with cancelled = TRUE leaves that row with *)
(* cancelled = FALSE, the plan of the request's plan id, and the request's *)
(* cancel_url, update_url and next_bill_date.                              *)
(***************************************************************************)
C7_UpdateUncancels ==
    [][(/\ Served
        /\ last'.form.alert_name = "subscription_updated"
        /\ Signed(last'.form)
        /\ Readable(last'.form)) =>
          \A i \in RowsWith(subs, last'.form.subscription_id) :
              subs[i].cancelled =>
                  /\ last'.resp = OK200
                  /\ subs'[i].cancelled = FALSE
                  /\ CarriesTerms(subs'[i], last'.form)
                  /\ subs'[i].subscription_id = subs[i].subscription_id]_vars

\* A cancelled row has been updated to monthly.
C7_Witness ==
    /\ last.form.alert_name = "subscription_updated"
    /\ last.was_cancelled
    /\ last.resp = OK200
    /\ last.form.subscription_plan_id = P12
    /\ \E i \in RowsWith(subs, last.form.subscription_id) : ~subs[i].cancelled

\* The row a subscription_created or subscription_updated request resolves
\* its plan for: the user's row, or the row with the subscription_id.
TargetRows(table, form) ==
    IF form.alert_name = "subscription_created"
    THEN RowsOf(table, User_get_by(form.email))
    ELSE RowsWith(table, form.subscription_id)

\* The request gets as far as resolving its plan and nothing but the plan id
\* can stop it: the user is known, the row to update exists, the date is a
\* date and no other user's row carries the subscription_id.
OnlyPlanInQuestion(table, form) ==
    /\ form.alert_name \in {"subscription_created", "subscription_updated"}
    /\ Signed(form)
    /\ ExpectedDate(form.next_bill_date) # <<0, 0, 0>>
    /\ form.alert_name = "subscription_created" =>
          /\ User_get_by(form.email) # 0
          /\ \A i \in RowsWith(table, form.subscription_id) :
                table[i].user_id = User_get_by(form.email)
    /\ form.alert_name = "subscription_updated" =>
          RowsWith(table, form.subscription_id) # {}

(***************************************************************************)
(* C8 as claimed: for every plan identifier string, garbage included, the  *)
(* request is accepted, and the plan is monthly exactly when the           *)
(* identifier is the monthly one and yearly for every other string, in     *)
(* the subscription_created and the subscription_updated path.             *)
(***************************************************************************)
C8_PlanResolutionTotal ==
    [][(Served /\ OnlyPlanInQuestion(subs, last'.form)) =>
          /\ last'.resp = OK200
          /\ \A i \in TargetRows(subs', last'.form) :
                subs'[i].plan =
                    IF ExpectedPlan(last'.form.subscription_plan_id) = "monthly"
                    THEN "monthly" ELSE "yearly"]_vars

(***************************************************************************)
(* C8 amended: the plan identifier is read as an integer.  When it is the  *)
(* text of an integer the request is accepted and the plan is monthly      *)
(* exactly when the integer is the configured monthly product id ("012"    *)
(* as well as "12"), yearly otherwise; when it is not the text of an       *)
(* integer the request is answered 500 and the table is left as it was.    *)
(***************************************************************************)
C8_PlanResolution ==
    [][(Served /\ OnlyPlanInQuestion(subs, last'.form)) =>
          IF ExpectedPlan(last'.form.subscription_plan_id) = "not a number"
          THEN last'.resp = Err500 /\ subs' = subs
          ELSE /\ last'.resp = OK200
               /\ TargetRows(subs', last'.form) # {}
               /\ \A i \in TargetRows(subs', last'.form) :
                     subs'[i].plan = ExpectedPlan(last'.form.subscription_plan_id)]_vars

\* A subscription_updated with a plan id that is not a number has been
\* answered 500 and the row it names is as it was.
C8_Witness ==
    /\ last.form.alert_name = "subscription_updated"
    /\ last.form.subscription_plan_id = PX
    /\ last.resp = Err500
    /\ last.found # 0
    /\ subs[last.found].subscription_id = last.form.subscription_id

(***************************************************************************)
(* C9 as claimed: the subscription_id of a user's row, once set, is the    *)
(* same in every later state.                                              *)
(***************************************************************************)
C9_IdNeverChanges ==
    [][\A i \in 1..Len(subs) :
          subs'[i].subscription_id = subs[i].subscription_id]_vars

(***************************************************************************)
(* C9 amended: a row keeps its user_id, and its subscription_id changes    *)
(* only in a step that accepts a subscription_created request of the       *)
(* row's user, which sets it to the request's subscription_id; every other *)
(* request, and every request that is not accepted, leaves it as it was.   *)
(***************************************************************************)
C9_IdChangesOnlyOnCreated ==
    [][\A i \in 1..Len(subs) :
          /\ Len(subs') >= Len(subs)
          /\ subs'[i].user_id = subs[i].user_id
          /\ subs'[i].subscription_id # subs[i].subscription_id =>
                /\ last'.form.alert_name = "subscription_created"
                /\ Signed(last'.form)
                /\ last'.resp = OK200
                /\ User_get_by(last'.form.email) = subs[i].user_id
                /\ subs'[i].subscription_id = last'.form.subscription_id]_vars

\* A subscription_created request has replaced the subscription_id of the
\* user's row by another one.
C9_Witness ==
    /\ last.form.alert_name = "subscription_created"
    /\ last.resp = OK200
    /\ last.found # 0
    /\ last.old_sid \in SubIds
    /\ last.old_sid # last.form.subscription_id
    /\ subs[last.found].subscription_id = last.form.subscription_id

\* The rows a request is for: the user's row for subscription_created, the
\* row with the subscription_id for the other kinds.
ConcernedRows(table, form) ==
    IF form.alert_name = "subscription_created"
    THEN RowsOf(table, User_get_by(form.email))
    ELSE RowsWith(table, form.subscription_id)

(***************************************************************************)
(* C10 as claimed: after a subscription_created, subscription_updated or   *)
(* subscription_payment_succeeded request for a cancelled row has been     *)
(* accepted, the row has cancelled = FALSE.                                *)
(***************************************************************************)
C10_AnyLiveEventUncancels ==
    [][(/\ Served
        /\ last'.form.alert_name \in
              {"subscription_created", "subscription_updated",
               "subscription_payment_succeeded"}
        /\ Signed(last'.form)
        /\ last'.resp = OK200) =>
          \A i \in ConcernedRows(subs, last'.form) :
              subs[i].cancelled => ~subs'[i].cancelled]_vars

(***************************************************************************)
(* C10 amended: after a subscription_created or subscription_updated       *)
(* request for a cancelled row has been accepted, the row has              *)
(* cancelled = FALSE; an accepted subscription_payment_succeeded request   *)
(* leaves cancelled as it was, so a cancelled row stays cancelled.         *)
(***************************************************************************)
C10_CreatedOrUpdatedUncancels ==
    [][(/\ Served
        /\ Signed(last'.form)
        /\ last'.resp = OK200) =>
          \A i \in ConcernedRows(subs, last'.form) :
              /\ (/\ last'.form.alert_name \in
                        {"subscription_created", "subscription_updated"}
                  /\ subs[i].cancelled) => ~subs'[i].cancelled
              /\ last'.form.alert_name = "subscription_payment_succeeded" =>
                    subs'[i].cancelled = subs[i].cancelled]_vars

\* A subscription_created request has been accepted for a user whose row
\* was cancelled, and the row is live again.
C10_Witness ==
    /\ last.form.alert_name = "subscription_created"
    /\ last.was_cancelled
    /\ last.resp = OK200
    /\ ~subs[last.found].cancelled

\* The alert names the view has a branch for.
KnownKinds ==
    {"subscription_created", "subscription_payment_succeeded",
     "subscription_cancelled", "subscription_updated"}

DateKinds ==
    {"subscription_created", "subscription_payment_succeeded",
     "subscription_updated"}

\* A verified request of a kind that reads next_bill_date, whose
\* next_bill_date is not a date.
MalformedDate(form) ==
    /\ Signed(form)
    /\ form.alert_name \in DateKinds
    /\ ExpectedDate(form.next_bill_date) = <<0, 0, 0>>

(***************************************************************************)
(* C12 as claimed: a request of a kind that carries next_bill_date whose   *)
(* next_bill_date is malformed is rejected before any lookup, whether or   *)
(* not a matching row exists (a payment for an unknown subscription_id     *)
(* included), and no row is changed.                                       *)
(***************************************************************************)
C12_MalformedDateFailsFast ==
    [][(Served /\ MalformedDate(last'.form)) =>
          /\ last'.resp.status # 200
          /\ last'.queries = 0
          /\ subs' = subs]_vars

(***************************************************************************)
(* C12 amended: the date is parsed where the branch assigns it, after the  *)
(* lookups.  A subscription_created request of a known user with a         *)
(* readable plan id and a malformed date is answered 500 after both        *)
(* lookups, whether or not the user has a row; a payment or update with a  *)
(* malformed date is answered 500 only when the row exists, after the      *)
(* lookup that found it; for an unknown subscription_id the date is never  *)
(* looked at: the payment is answered OK, the update "No such              *)
(* subscription", 400.  In every case the table is left as it was.         *)
(***************************************************************************)
C12_MalformedDateFailsWhenParsed ==
    [][(/\ Served
        /\ MalformedDate(last'.form)
        /\ ExpectedPlan(last'.form.subscription_plan_id) # "not a number") =>
          /\ subs' = subs
          /\ (/\ last'.form.alert_name = "subscription_created"
               /\ User_get_by(last'.form.email) # 0) =>
                  (last'.resp = Err500 /\ last'.queries = 2)
          /\ last'.form.alert_name = "subscription_payment_succeeded" =>
                  /\ last'.queries = 1
                  /\ last'.resp =
                        IF RowsWith(subs, last'.form.subscription_id) = {}
                        THEN OK200 ELSE Err500
          /\ last'.form.alert_name = "subscription_updated" =>
                  /\ last'.queries = 1
                  /\ last'.resp =
                        IF RowsWith(subs, last'.form.subscription_id) = {}
                        THEN NoSuch400 ELSE Err500]_vars

\* A payment with a malformed date for a subscription_id no row carries
\* has been let through, with a row of another subscription present.
C12_Witness ==
    /\ last.form.alert_name = "subscription_payment_succeeded"
    /\ MalformedDate(last.form)
    /\ last.resp = OK200
    /\ last.found = 0
    /\ RowsWith(subs, last.form.subscription_id) = {}
    /\ Len(subs) > 0

(***************************************************************************)
(* C13  No partial state after a failure: a request of any kind that is    *)
(* answered with a failure status (400 or 500: a bad signature, an unknown *)
(* subscription, an email of no user, a plan id or a date that does not    *)
(* parse after attributes of the row have already been assigned, a commit  *)
(* the table refuses) leaves the table exactly as it was before it.        *)
(***************************************************************************)
C13_NoPartialState ==
    [][(Served /\ last'.resp.status # 200) => subs' = subs]_vars

\* A subscription_created request failed on its date after cancel_url,
\* update_url, subscription_id and event_time had been assigned on the
\* user's row, and the row still has the link it had.
C13_Witness ==
    /\ last.form.alert_name = "subscription_created"
    /\ MalformedDate(last.form)
    /\ last.resp = Err500
    /\ last.found # 0
    /\ subs[last.found].cancel_url # last.form.cancel_url

\* Worker w commits in this step.
Commits(w) == req[w].pc = "commit" /\ req'[w].pc = "done"

(***************************************************************************)
(* C14  In every step, with one or two workers serving the route, a row's  *)
(* cancelled changes from FALSE to TRUE only in a step that applies a      *)
(* subscription_cancelled request carrying the subscription_id the row     *)
(* has; no other kind of request and no rejected request sets it.          *)
(***************************************************************************)
C14_OnlyCancellationCancels ==
    [][\A i \in 1..Len(subs) :
          (~subs[i].cancelled /\ subs'[i].cancelled) =>
              \E w \in Workers :
                  /\ Commits(w)
                  /\ req'[w].resp = OK200
                  /\ req[w].form.alert_name = "subscription_cancelled"
                  /\ req[w].form.subscription_id = subs[i].subscription_id]_vars

\* Rows a and b agree on every attribute but event_time and next_bill_date.
SameButTimeAndDate(a, b) ==
    /\ a.user_id = b.user_id
    /\ a.subscription_id = b.subscription_id
    /\ a.plan = b.plan
    /\ a.cancelled = b.cancelled
    /\ a.cancel_url = b.cancel_url
    /\ a.update_url = b.update_url

(***************************************************************************)
(* C15  A subscription_payment_succeeded request for the subscription_id   *)
(* of a row changes only event_time and next_bill_date of that row: plan,  *)
(* cancelled (a cancelled row stays cancelled), cancel_url, update_url,    *)
(* subscription_id and user_id are as they were, no other row changes and  *)
(* no row is added; when its date is a date it is accepted and the row has *)
(* event_time = now and the request's next_bill_date.                      *)
(***************************************************************************)
C15_PaymentFrame ==
    [][(/\ Served
        /\ last'.form.alert_name = "subscription_payment_succeeded"
        /\ Signed(last'.form)
        /\ RowsWith(subs, last'.form.subscription_id) # {}) =>
          /\ Len(subs') = Len(subs)
          /\ \A i \in 1..Len(subs) :
                IF i \in RowsWith(subs, last'.form.subscription_id)
                THEN /\ SameButTimeAndDate(subs'[i], subs[i])
                     /\ ExpectedDate(last'.form.next_bill_date) # <<0, 0, 0>> =>
                           /\ last'.resp = OK200
                           /\ subs'[i].event_time = now
                           /\ subs'[i].next_bill_date =
                                  ExpectedDate(last'.form.next_bill_date)
                ELSE subs'[i] = subs[i]]_vars

\* A payment has been accepted for a cancelled row, next to another user's
\* row; the row carries the payment's date and is still cancelled.
C15_Witness ==
    /\ last.form.alert_name = "subscription_payment_succeeded"
    /\ last.resp = OK200
    /\ last.was_cancelled
    /\ Len(subs) = 2
    /\ subs[last.found].cancelled
    /\ subs[last.found].next_bill_date = ExpectedDate(last.form.next_bill_date)
    /\ subs[last.found].event_time = now

(***************************************************************************)
(* C16  A subscription_cancelled request for the subscription_id of a row  *)
(* is accepted and sets cancelled = TRUE and event_time = now on that row  *)
(* and nothing else: next_bill_date (also when it is not the request's     *)
(* cancellation_effective_date), plan, cancel_url, update_url,             *)
(* subscription_id and user_id are as they were; no other row changes.     *)
(***************************************************************************)
C16_CancelFrame ==
    [][(/\ Served
        /\ last'.form.alert_name = "subscription_cancelled"
        /\ Signed(last'.form)
        /\ RowsWith(subs, last'.form.subscription_id) # {}) =>
          /\ last'.resp = OK200
          /\ Len(subs') = Len(subs)
          /\ \A i \in 1..Len(subs) :
                IF i \in RowsWith(subs, last'.form.subscription_id)
                THEN subs'[i] = [subs[i] EXCEPT !.cancelled = TRUE,
                                                !.event_time = now]
                ELSE subs'[i] = subs[i]]_vars

\* A live row whose next_bill_date is not the cancellation's effective date
\* has been cancelled, and has the next_bill_date it had.
C16_Witness ==
    /\ last.form.alert_name = "subscription_cancelled"
    /\ last.resp = OK200
    /\ ~last.was_cancelled
    /\ subs[last.found].cancelled
    /\ subs[last.found].event_time = now
    /\ subs[last.found].next_bill_date = ExpectedDate(D2)
    /\ ExpectedDate(last.form.cancellation_effective_date) = ExpectedDate(D1)

\* The request is one the table can take: no other user's row carries its
\* subscription_id.
IdFree(table, form) ==
    \A i \in RowsWith(table, form.subscription_id) :
        table[i].user_id = User_get_by(form.email)

(***************************************************************************)
(* C17  A subscription_created request (plan id and date readable, its     *)
(* subscription_id on no other user's row) for a user who has a row, in    *)
(* any state of that row (cancelled or not, holding this or another        *)
(* subscription_id), is accepted, adds no row, and leaves the user's row   *)
(* with the request's cancel_url, update_url and subscription_id, the plan *)
(* and next_bill_date the request resolves to, event_time = now and        *)
(* cancelled = FALSE; its user_id and every other row are as they were.    *)
(***************************************************************************)
C17_CreatedOverwrites ==
    [][(/\ Served
        /\ last'.form.alert_name = "subscription_created"
        /\ Signed(last'.form)
        /\ Readable(last'.form)
        /\ RowsOf(subs, User_get_by(last'.form.email)) # {}
        /\ IdFree(subs, last'.form)) =>
          /\ last'.resp = OK200
          /\ Len(subs') = Len(subs)
          /\ \A i \in 1..Len(subs) :
                IF i \in RowsOf(subs, User_get_by(last'.form.email))
                THEN subs'[i] =
                        [user_id |-> subs[i].user_id,
                         cancel_url |-> last'.form.cancel_url,
                         update_url |-> last'.form.update_url,
                         subscription_id |-> last'.form.subscription_id,
                         plan |-> ExpectedPlan(last'.form.subscription_plan_id),
                         next_bill_date |-> ExpectedDate(last'.form.next_bill_date),
                         event_time |-> now,
                         cancelled |-> FALSE]
                ELSE subs'[i] = subs[i]]_vars

\* A subscription_created request has been accepted for a user whose row
\* was cancelled and held another subscription_id; the user has one row,
\* live, with the new id.
C17_Witness ==
    /\ last.form.alert_name = "subscription_created"
    /\ last.resp = OK200
    /\ last.found # 0
    /\ last.was_cancelled
    /\ last.old_sid \in SubIds \ {last.form.subscription_id}
    /\ Cardinality(RowsOf(subs, User_get_by(last.form.email))) = 1
    /\ subs[last.found].subscription_id = last.form.subscription_id
    /\ ~subs[last.found].cancelled

(***************************************************************************)
(* C18  Retry safety: when a request of any kind is delivered a second     *)
(* time right after its first delivery, in any state of the table, the     *)
(* second delivery is answered as the first was, adds no row, and leaves   *)
(* every attribute of every row other than event_time as the first         *)
(* delivery left it.                                                       *)
(***************************************************************************)
C18_RetrySafe ==
    [][(Served /\ last'.replay) =>
          /\ last'.resp = last.resp
          /\ Len(subs') = Len(subs)
          /\ \A i \in 1..Len(subs) :
                subs'[i] = [subs[i] EXCEPT !.event_time = subs'[i].event_time]]_vars

\* The same subscription_cancelled request has been accepted twice in a
\* row; the row was already cancelled at the second delivery.
C18_Witness ==
    /\ last.replay
    /\ last.form.alert_name = "subscription_cancelled"
    /\ last.resp = OK200
    /\ last.was_cancelled
    /\ subs[last.found].cancelled

C20_EventTimeMonotonic ==
    [][\A i \in 1..Len(subs) : subs'[i].event_time >= subs[i].event_time]_vars

\* Worker w takes up a request in this step.
Begins(w) == req[w].pc # "commit" /\ req'[w].pc # "idle" /\ req'[w] # req[w]

(***************************************************************************)
(* C21  A stale cancellation cannot cancel a replacement subscription:     *)
(* a subscription_cancelled request taken up when no row carries its       *)
(* subscription_id (a subscription_created request has replaced the id on  *)
(* the user's row) is answered "No such subscription", 400 and changes     *)
(* nothing; and a subscription_cancelled request only ever writes to a     *)
(* row whose subscription_id, at the time of the write, is the request's.  *)
(***************************************************************************)
C21_NoStaleCancellation ==
    [][\A w \in Workers :
          /\ (/\ Begins(w)
               /\ req'[w].form.alert_name = "subscription_cancelled"
               /\ RowsWith(subs, req'[w].form.subscription_id) = {}) =>
                  /\ req'[w].pc = "done"
                  /\ req'[w].resp = NoSuch400
                  /\ subs' = subs
          /\ (/\ Commits(w)
               /\ req[w].form.alert_name = "subscription_cancelled") =>
                  \A i \in 1..Len(subs) :
                      subs'[i] # subs[i] =>
                          subs[i].subscription_id = req[w].form.subscription_id]_vars

====
